---------------------------- MODULE Spec2Model ----------------------------
(***************************************************************************)
(* rx::VertexDataManager (libANGLE/renderer/d3d/VertexDataManager.cpp):    *)
(* the per-draw translation of vertex attributes into destination buffers *)
(* (direct storage, persistent static cache, streaming buffer) and the     *)
(* per-slot cache of constant (current) values.                            *)
(***************************************************************************)
EXTENDS Integers, Sequences, FiniteSets, TLC

\* ------------------------------------------------------------------ bounds

\* Attribute slots of the model (gl::MAX_VERTEX_ATTRIBS slots in the program).
NumSlots == 2
\* Largest draw start, vertex count and instance count of a modelled draw.
MaxStart == 1
MaxCount == 2
MaxInstances == 2
\* Largest arguments of the element-count function when checked on its own.
MaxFnCount == 3
MaxFnInstances == 6
MaxFnDivisor == 4
\* Width of unsigned int in the model.
UIntBits == 10
MaxAndroidCalls == 4

Slots == 1 .. NumSlots
NoBuffer == 0
\* Server buffers (gl::Buffer objects) a vertex attribute may be bound to.
Buffers == {1}
\* Byte size of a server buffer (BufferD3D::getSize).
BufferSize == 16
Strides == {0, 8}
Offsets == {0, 4}
Divisors == {0, 2}

UIntMod == 2 ^ UIntBits
ToUInt(x) == x % UIntMod
IntMax == 2 ^ (UIntBits - 1) - 1
\* size_t is twice as wide as unsigned int.
SizeTMod == 2 ^ (2 * UIntBits)
\* Conversion of an unsigned value to int (two's complement).
ToInt(x) == IF x % UIntMod > IntMax THEN (x % UIntMod) - UIntMod ELSE x % UIntMod

Min(a, b) == IF a < b THEN a ELSE b

\* C++ integer division (truncation towards zero).
CDiv(a, b) ==
    IF (a >= 0) = (b > 0) THEN a \div b
    ELSE IF a >= 0 THEN -(a \div (-b))
    ELSE -((-a) \div b)

\* C++ remainder (sign of the dividend).
CMod(a, b) == a - b * CDiv(a, b)

\* ------------------------------------------------- attribute descriptors

\* gl::VertexAttribute: enabled flag, source (server buffer, or NoBuffer for a
\* client pointer), stride (0 = tightly packed), offset, instancing divisor.
Attributes ==
    [enabled : BOOLEAN, buffer : Buffers \cup {NoBuffer}, stride : Strides,
     offset : Offsets, divisor : Divisors]

\* gl::VertexAttribCurrentValueData: four components and a type tag.  The
\* components are modelled by their bit pattern.
QuietNaN == "qnan"
CurrentValues ==
    { [Type |-> "GL_FLOAT", Bits |-> QuietNaN],
      [Type |-> "GL_FLOAT", Bits |-> "one"],
      [Type |-> "GL_INT", Bits |-> "one"] }

\* operator!= of gl::VertexAttribCurrentValueData: typed and bitwise.
CurrentValueDiffers(a, b) == a.Type # b.Type \/ a.Bits # b.Bits

ComputeVertexAttributeTypeSize(attrib) == 4

ComputeVertexAttributeStride(attrib) ==
    IF attrib.stride # 0 THEN attrib.stride
    ELSE ComputeVertexAttributeTypeSize(attrib)

\* Size of one converted element in a destination buffer
\* (VertexBuffer::getSpaceRequired for one element).
OutputElementSize(attrib) == 16

\* The expression of line 39 mixes the unsigned int `size` with the size_t of
\* ComputeVertexAttributeTypeSize: it is evaluated in unsigned arithmetic of the
\* width of size_t, and the quotient is converted to the int returned.
ElementsInBuffer(attrib, bufSize) ==
    LET size == Min(bufSize, IntMax)
        stride == ComputeVertexAttributeStride(attrib)
        sum == (size - CMod(attrib.offset, stride)
                     + (stride - ComputeVertexAttributeTypeSize(attrib))) % SizeTMod
    IN  ToInt(sum \div stride)

\* StreamingBufferElementCount without the instancing case.
StreamingBufferElementCount_IgnoresInstancing(attrib, vertexDrawCount, instanceDrawCount) ==
    vertexDrawCount

\* StreamingBufferElementCount whose division rounds down.
StreamingBufferElementCount_RoundsDown(attrib, vertexDrawCount, instanceDrawCount) ==
    IF instanceDrawCount > 0 /\ attrib.divisor > 0
    THEN CDiv(instanceDrawCount, attrib.divisor)
    ELSE vertexDrawCount

StreamingBufferElementCount(attrib, vertexDrawCount, instanceDrawCount) ==
    IF instanceDrawCount > 0 /\ attrib.divisor > 0
    THEN CDiv(instanceDrawCount + attrib.divisor - 1, attrib.divisor)
    ELSE vertexDrawCount


\* ------------------------------------------------------ destination buffers

\* Capacity of the streaming buffer and of a constant-value buffer in the
\* model (INITIAL_STREAM_BUFFER_SIZE and CONSTANT_VERTEX_BUFFER_SIZE scaled
\* down so that the buffers wrap).
StreamBufferSize == 32
ConstantBufferSize == 32

\* Identities (serials) of vertex buffers and of source buffers.
StreamId == <<"stream", 0>>
StaticId(b) == <<"static", b>>
ConstId(i) == <<"const", i>>
SourceId(b) == <<"source", b>>
NoId == <<"none", 0>>

\* BufferD3D::getStaticVertexBuffer: absent, or a StaticVertexBufferInterface
\* with its size, its cache of converted attributes and its write position.
NoStatic == [present |-> FALSE, size |-> 0, cache |-> {}, writePos |-> 0]
EmptyStatic == [present |-> TRUE, size |-> 0, cache |-> {}, writePos |-> 0]

\* What a static buffer's cache records of an attribute.
Signature(attrib) ==
    [stride |-> ComputeVertexAttributeStride(attrib),
     offset |-> CMod(attrib.offset, ComputeVertexAttributeStride(attrib))]

\* StaticVertexBufferInterface::lookupAttribute
lookupAttribute(sb, attrib) == \E e \in sb.cache : e.sig = Signature(attrib)

lookupOffset(sb, attrib) ==
    (CHOOSE e \in sb.cache : e.sig = Signature(attrib)).offset

\* VertexBufferInterface::directStoragePossible: the attribute is bound to a
\* server buffer, tightly packed and carries no offset bias.
directStoragePossible(attrib, currentValue) ==
    /\ attrib.buffer # NoBuffer
    /\ ComputeVertexAttributeStride(attrib) = ComputeVertexAttributeTypeSize(attrib)
    /\ CMod(attrib.offset, ComputeVertexAttributeStride(attrib)) = 0

\* BufferD3D::invalidateStaticData: the static buffer is reset to empty.
invalidateStaticData(sb) == EmptyStatic

\* VertexBufferInterface::storeVertexAttributes on a static buffer: the
\* converted elements are written at the write position, which advances, and
\* the attribute is entered in the cache.
staticStore(sb, attrib, totalCount) ==
    [present |-> TRUE,
     size |-> sb.writePos + totalCount * OutputElementSize(attrib),
     cache |-> sb.cache \cup {[sig |-> Signature(attrib), offset |-> sb.writePos]},
     writePos |-> sb.writePos + totalCount * OutputElementSize(attrib)]

\* StreamingVertexBufferInterface: the offset a store of `space` bytes is
\* written at (the buffer is discarded when the data does not fit) ...
streamStoreOffset(pos, space, capacity) ==
    IF pos + space > capacity THEN 0 ELSE pos

\* ... and the write position after it.
streamStoreNext(pos, space, capacity) ==
    streamStoreOffset(pos, space, capacity) + space

\* One entry of the event log of a call.
Event(op, buf, slot, count, first) ==
    [op |-> op, buf |-> buf, slot |-> slot, count |-> count, first |-> first]

\* Points at which a buffer operation can fail with GL_OUT_OF_MEMORY.
FailPoints == {"none", "getSpaceRequired", "reserveVertexSpace", "storeVertexAttributes"}

\* --------------------------------------------------- VertexDataManager

\* A TranslatedAttribute before prepareVertexData has filled it in.
BlankTranslated ==
    [active |-> FALSE, storage |-> NoBuffer, vertexBuffer |-> NoId, serial |-> NoId,
     divisor |-> 0, currentValueType |-> "none", stride |-> 0, offset |-> 0]

\* CurrentValueState::CurrentValueState
InitialCurrentValueState ==
    [buffer |-> FALSE, data |-> [Type |-> "GL_FLOAT", Bits |-> QuietNaN],
     offset |-> 0, writePos |-> 0]

\* The static vertex buffer of the attribute's server buffer, NoStatic when the
\* attribute has no server buffer.
StaticBufferOf(attrib, svb) ==
    IF attrib.buffer # NoBuffer THEN svb[attrib.buffer] ELSE NoStatic

\* invalidateMatchingStaticData that resets the static buffer when the
\* attribute is found in it.
invalidateMatchingStaticData_WhenFound(attrib, currentValue, svb) ==
    IF /\ attrib.buffer # NoBuffer
       /\ svb[attrib.buffer].present
       /\ svb[attrib.buffer].size > 0
       /\ lookupAttribute(svb[attrib.buffer], attrib)
       /\ ~directStoragePossible(attrib, currentValue)
    THEN [svb EXCEPT ![attrib.buffer] = invalidateStaticData(@)]
    ELSE svb

\* invalidateMatchingStaticData that does not ask whether direct storage is
\* possible.
invalidateMatchingStaticData_IgnoresDirect(attrib, currentValue, svb) ==
    IF /\ attrib.buffer # NoBuffer
       /\ svb[attrib.buffer].present
       /\ svb[attrib.buffer].size > 0
       /\ ~lookupAttribute(svb[attrib.buffer], attrib)
    THEN [svb EXCEPT ![attrib.buffer] = invalidateStaticData(@)]
    ELSE svb

invalidateMatchingStaticData(attrib, currentValue, svb) ==
    IF /\ attrib.buffer # NoBuffer
       /\ svb[attrib.buffer].present
       /\ svb[attrib.buffer].size > 0
       /\ ~lookupAttribute(svb[attrib.buffer], attrib)
       /\ ~directStoragePossible(attrib, currentValue)
    THEN [svb EXCEPT ![attrib.buffer] = invalidateStaticData(@)]
    ELSE svb

\* The first loop of prepareVertexData without the test of the active flag.
RECURSIVE InvalidatePass_IgnoresActive(_, _, _)
InvalidatePass_IgnoresActive(i, d, acc) ==
    IF i > NumSlots THEN acc
    ELSE IF d.attribs[i].enabled
    THEN LET svb2 == invalidateMatchingStaticData(d.attribs[i], d.values[i], acc.svb)
         IN  InvalidatePass_IgnoresActive(i + 1, d,
                 [svb |-> svb2,
                  events |-> IF svb2 # acc.svb
                             THEN Append(acc.events,
                                      Event("invalidate", StaticId(d.attribs[i].buffer), i, 0, 0))
                             ELSE acc.events])
    ELSE InvalidatePass_IgnoresActive(i + 1, d, acc)

\* The first loop of prepareVertexData from slot i on: the static buffers
\* after it and the invalidations it made.
RECURSIVE InvalidatePass(_, _, _)
InvalidatePass(i, d, acc) ==
    IF i > NumSlots THEN acc
    ELSE IF d.active[i] /\ d.attribs[i].enabled
    THEN LET svb2 == invalidateMatchingStaticData(d.attribs[i], d.values[i], acc.svb)
         IN  InvalidatePass(i + 1, d,
                 [svb |-> svb2,
                  events |-> IF svb2 # acc.svb
                             THEN Append(acc.events,
                                      Event("invalidate", StaticId(d.attribs[i].buffer), i, 0, 0))
                             ELSE acc.events])
    ELSE InvalidatePass(i + 1, d, acc)

\* reserveSpaceForAttrib that stores into the streaming buffer as soon as it
\* has reserved.
reserveSpaceForAttrib_StoresAtOnce(attrib, currentValue, count, instances, svb, bsize, slot, fail) ==
    LET staticBuffer == StaticBufferOf(attrib, svb)
    IN  IF directStoragePossible(attrib, currentValue)
        THEN [err |-> FALSE, events |-> <<>>]
        ELSE IF staticBuffer.present
        THEN IF staticBuffer.size = 0
             THEN IF fail
                  THEN [err |-> TRUE, events |-> <<>>]
                  ELSE [err |-> FALSE,
                        events |-> <<Event("reserve", StaticId(attrib.buffer), slot,
                                           ElementsInBuffer(attrib, bsize[attrib.buffer]), 0)>>]
             ELSE [err |-> FALSE, events |-> <<>>]
        ELSE IF fail
             THEN [err |-> TRUE, events |-> <<>>]
             ELSE [err |-> FALSE,
                   events |-> <<Event("reserve", StreamId, slot,
                                      StreamingBufferElementCount(attrib, count, instances),
                                      instances),
                                Event("store", StreamId, slot,
                                      StreamingBufferElementCount(attrib, count, instances),
                                      instances)>>]

\* reserveSpaceForAttrib that reserves in a static buffer whatever its size.
reserveSpaceForAttrib_NoSizeCheck(attrib, currentValue, count, instances, svb, bsize, slot, fail) ==
    LET staticBuffer == StaticBufferOf(attrib, svb)
    IN  IF directStoragePossible(attrib, currentValue)
        THEN [err |-> FALSE, events |-> <<>>]
        ELSE IF fail
        THEN [err |-> TRUE, events |-> <<>>]
        ELSE IF staticBuffer.present
        THEN [err |-> FALSE,
              events |-> <<Event("reserve", StaticId(attrib.buffer), slot,
                                 ElementsInBuffer(attrib, bsize[attrib.buffer]), 0)>>]
        ELSE [err |-> FALSE,
              events |-> <<Event("reserve", StreamId, slot,
                                 StreamingBufferElementCount(attrib, count, instances),
                                 instances)>>]

\* reserveSpaceForAttrib that sizes the reservation in a static buffer to the
\* draw.
reserveSpaceForAttrib_DrawCount(attrib, currentValue, count, instances, svb, bsize, slot, fail) ==
    LET staticBuffer == StaticBufferOf(attrib, svb)
    IN  IF directStoragePossible(attrib, currentValue)
           \/ (staticBuffer.present /\ staticBuffer.size # 0)
        THEN [err |-> FALSE, events |-> <<>>]
        ELSE IF fail
        THEN [err |-> TRUE, events |-> <<>>]
        ELSE [err |-> FALSE,
              events |-> <<Event("reserve",
                                 IF staticBuffer.present THEN StaticId(attrib.buffer)
                                 ELSE StreamId,
                                 slot,
                                 StreamingBufferElementCount(attrib, count, instances),
                                 IF staticBuffer.present THEN 0 ELSE instances)>>]

reserveSpaceForAttrib(attrib, currentValue, count, instances, svb, bsize, slot, fail) ==
    LET staticBuffer == StaticBufferOf(attrib, svb)
    IN  IF directStoragePossible(attrib, currentValue)
        THEN [err |-> FALSE, events |-> <<>>]
        ELSE IF staticBuffer.present
        THEN IF staticBuffer.size = 0
             THEN IF fail
                  THEN [err |-> TRUE, events |-> <<>>]
                  ELSE [err |-> FALSE,
                        events |-> <<Event("reserve", StaticId(attrib.buffer), slot,
                                           ElementsInBuffer(attrib, bsize[attrib.buffer]), 0)>>]
             ELSE [err |-> FALSE, events |-> <<>>]
        ELSE IF fail
             THEN [err |-> TRUE, events |-> <<>>]
             ELSE [err |-> FALSE,
                   events |-> <<Event("reserve", StreamId, slot,
                                      StreamingBufferElementCount(attrib, count, instances),
                                      instances)>>]

\* Lines 357-364 of storeAttribute: the record emitted for the attribute.
EmitAttribute(tr, attrib, currentValue, directStorage, vb, outputElementSize, streamOffset) ==
    [tr EXCEPT !.storage = IF directStorage THEN attrib.buffer ELSE NoBuffer,
               !.vertexBuffer = vb,
               !.serial = IF directStorage THEN SourceId(attrib.buffer) ELSE vb,
               !.divisor = attrib.divisor,
               !.currentValueType = currentValue.Type,
               !.stride = outputElementSize,
               !.offset = streamOffset]

\* The first vertex index without the instancing case.
FirstVertexIndex_AlwaysStart(attrib, start, instances) == start

\* Instanced vertices do not apply the 'start' offset.
FirstVertexIndex(attrib, start, instances) ==
    IF instances > 0 /\ attrib.divisor > 0 THEN 0 ELSE start

\* The offset of a directly stored attribute without the attribute's offset.
DirectStreamOffset_NoAttribOffset(attrib, firstVertexIndex) ==
    ToUInt(ComputeVertexAttributeStride(attrib) * firstVertexIndex)

\* Lines 306-307 of storeAttribute: the offset of a directly stored attribute.
DirectStreamOffset(attrib, firstVertexIndex) ==
    ToUInt(attrib.offset + ComputeVertexAttributeStride(attrib) * firstVertexIndex)

\* storeAttribute, lines 304-308: direct storage.
storeDirect(currentValue, tr, attrib, firstVertexIndex, vb, svb, spos, slot) ==
    [err |-> FALSE,
     tr |-> EmitAttribute(tr, attrib, currentValue, TRUE, vb,
                          ComputeVertexAttributeStride(attrib),
                          DirectStreamOffset(attrib, firstVertexIndex)),
     svb |-> svb, spos |-> spos, events |-> <<>>]

\* storeStatic that leaves out the start offset when the attribute is found in
\* the static buffer.
storeStatic_HitIgnoresStart(currentValue, tr, attrib, firstVertexIndex, instances, vb, svb, spos, bsize, slot, fail) ==
    LET staticBuffer == svb[attrib.buffer]
        outputElementSize == OutputElementSize(attrib)
        hit == lookupAttribute(staticBuffer, attrib)
        totalCount == ElementsInBuffer(attrib, bsize[attrib.buffer])
        startIndex == CDiv(attrib.offset, ComputeVertexAttributeStride(attrib))
        svb2 == IF hit THEN svb
                ELSE [svb EXCEPT ![attrib.buffer] = staticStore(staticBuffer, attrib, totalCount)]
        events == IF hit THEN <<>> ELSE <<Event("store", vb, slot, totalCount, -startIndex)>>
        cached == IF hit THEN lookupOffset(staticBuffer, attrib) ELSE staticBuffer.writePos
        firstElementOffset == ToUInt(startIndex * outputElementSize)
        startOffset == IF ~hit /\ (instances = 0 \/ attrib.divisor = 0)
                       THEN ToUInt(firstVertexIndex * outputElementSize)
                       ELSE 0
        streamOffset == ToUInt(cached + firstElementOffset + startOffset)
    IN  IF fail = "getSpaceRequired" \/ (~hit /\ fail = "storeVertexAttributes")
        THEN [err |-> TRUE, tr |-> tr, svb |-> svb, spos |-> spos, events |-> <<>>]
        ELSE IF streamOffset < cached
        THEN [err |-> TRUE, tr |-> tr, svb |-> svb2, spos |-> spos, events |-> events]
        ELSE [err |-> FALSE,
              tr |-> EmitAttribute(tr, attrib, currentValue, FALSE, vb, outputElementSize,
                                   streamOffset),
              svb |-> svb2, spos |-> spos, events |-> events]

\* storeStatic that converts the buffer without looking the attribute up.
storeStatic_AlwaysConverts(currentValue, tr, attrib, firstVertexIndex, instances, vb, svb, spos, bsize, slot, fail) ==
    LET staticBuffer == svb[attrib.buffer]
        outputElementSize == OutputElementSize(attrib)
        totalCount == ElementsInBuffer(attrib, bsize[attrib.buffer])
        startIndex == CDiv(attrib.offset, ComputeVertexAttributeStride(attrib))
        cached == staticBuffer.writePos
        firstElementOffset == ToUInt(startIndex * outputElementSize)
        startOffset == IF instances = 0 \/ attrib.divisor = 0
                       THEN ToUInt(firstVertexIndex * outputElementSize)
                       ELSE 0
        streamOffset == ToUInt(cached + firstElementOffset + startOffset)
    IN  IF fail \in {"getSpaceRequired", "storeVertexAttributes"}
        THEN [err |-> TRUE, tr |-> tr, svb |-> svb, spos |-> spos, events |-> <<>>]
        ELSE [err |-> streamOffset < cached,
              tr |-> IF streamOffset < cached THEN tr
                     ELSE EmitAttribute(tr, attrib, currentValue, FALSE, vb,
                                        outputElementSize, streamOffset),
              svb |-> [svb EXCEPT ![attrib.buffer] =
                          staticStore(staticBuffer, attrib, totalCount)],
              spos |-> spos,
              events |-> <<Event("store", vb, slot, totalCount, -startIndex)>>]

\* storeAttribute, lines 309-339: the attribute is served by the static buffer
\* of its server buffer.
storeStatic(currentValue, tr, attrib, firstVertexIndex, instances, vb, svb, spos, bsize, slot, fail) ==
    LET staticBuffer == svb[attrib.buffer]
        outputElementSize == OutputElementSize(attrib)
        hit == lookupAttribute(staticBuffer, attrib)
        totalCount == ElementsInBuffer(attrib, bsize[attrib.buffer])
        startIndex == CDiv(attrib.offset, ComputeVertexAttributeStride(attrib))
        svb2 == IF hit THEN svb
                ELSE [svb EXCEPT ![attrib.buffer] = staticStore(staticBuffer, attrib, totalCount)]
        events == IF hit THEN <<>> ELSE <<Event("store", vb, slot, totalCount, -startIndex)>>
        cached == IF hit THEN lookupOffset(staticBuffer, attrib) ELSE staticBuffer.writePos
        firstElementOffset == ToUInt(startIndex * outputElementSize)
        startOffset == IF instances = 0 \/ attrib.divisor = 0
                       THEN ToUInt(firstVertexIndex * outputElementSize)
                       ELSE 0
        streamOffset == ToUInt(cached + firstElementOffset + startOffset)
    IN  IF fail = "getSpaceRequired" \/ (~hit /\ fail = "storeVertexAttributes")
        THEN [err |-> TRUE, tr |-> tr, svb |-> svb, spos |-> spos, events |-> <<>>]
        ELSE IF streamOffset < cached
        THEN [err |-> TRUE, tr |-> tr, svb |-> svb2, spos |-> spos, events |-> events]
        ELSE [err |-> FALSE,
              tr |-> EmitAttribute(tr, attrib, currentValue, FALSE, vb, outputElementSize,
                                   streamOffset),
              svb |-> svb2, spos |-> spos, events |-> events]

\* storeAttribute, lines 340-355: the attribute is streamed.
storeStreaming(currentValue, tr, attrib, firstVertexIndex, count, instances, vb, svb, spos, slot, fail) ==
    LET totalCount == StreamingBufferElementCount(attrib, count, instances)
        outputElementSize == OutputElementSize(attrib)
        space == totalCount * outputElementSize
    IN  IF fail \in {"getSpaceRequired", "storeVertexAttributes"}
        THEN [err |-> TRUE, tr |-> tr, svb |-> svb, spos |-> spos, events |-> <<>>]
        ELSE [err |-> FALSE,
              tr |-> EmitAttribute(tr, attrib, currentValue, FALSE, vb, outputElementSize,
                                   streamStoreOffset(spos, space, StreamBufferSize)),
              svb |-> svb,
              spos |-> streamStoreNext(spos, space, StreamBufferSize),
              events |-> <<Event("store", vb, slot, totalCount, firstVertexIndex)>>]

storeAttribute(currentValue, tr, attrib, start, count, instances, svb, spos, bsize, slot, fail) ==
    LET staticBuffer == StaticBufferOf(attrib, svb)
        vb == IF staticBuffer.present THEN StaticId(attrib.buffer) ELSE StreamId
        firstVertexIndex == FirstVertexIndex(attrib, start, instances)
    IN  IF directStoragePossible(attrib, currentValue)
        THEN storeDirect(currentValue, tr, attrib, firstVertexIndex, vb, svb, spos, slot)
        ELSE IF staticBuffer.present
        THEN storeStatic(currentValue, tr, attrib, firstVertexIndex, instances, vb, svb,
                         spos, bsize, slot, fail)
        ELSE storeStreaming(currentValue, tr, attrib, firstVertexIndex, count, instances,
                            vb, svb, spos, slot, fail)

\* storeCurrentValue that caches the constant before it reserves and stores.
storeCurrentValue_CachesFirst(currentValue, tr, attrib, cachedState, slot, fail) ==
    LET differs == CurrentValueDiffers(cachedState.data, currentValue)
        space == OutputElementSize(attrib)
        cached1 == [cachedState EXCEPT !.data = currentValue]
        cached2 ==
            IF differs
            THEN [cachedState EXCEPT
                     !.data = currentValue,
                     !.offset = streamStoreOffset(cachedState.writePos, space, ConstantBufferSize),
                     !.writePos = streamStoreNext(cachedState.writePos, space, ConstantBufferSize)]
            ELSE cachedState
    IN  IF differs /\ fail = "reserveVertexSpace"
        THEN [err |-> TRUE, tr |-> tr, cached |-> cached1, events |-> <<>>]
        ELSE IF differs /\ fail = "storeVertexAttributes"
        THEN [err |-> TRUE, tr |-> tr, cached |-> cached1,
              events |-> <<Event("reserve", ConstId(slot), slot, 1, 0)>>]
        ELSE [err |-> FALSE,
              tr |-> [tr EXCEPT !.storage = NoBuffer,
                                !.vertexBuffer = ConstId(slot),
                                !.serial = ConstId(slot),
                                !.divisor = 0,
                                !.currentValueType = currentValue.Type,
                                !.stride = 0,
                                !.offset = cached2.offset],
              cached |-> cached2,
              events |-> IF differs
                         THEN <<Event("reserve", ConstId(slot), slot, 1, 0),
                                Event("store", ConstId(slot), slot, 1, 0)>>
                         ELSE <<>>]

storeCurrentValue(currentValue, tr, attrib, cachedState, slot, fail) ==
    LET differs == CurrentValueDiffers(cachedState.data, currentValue)
        space == OutputElementSize(attrib)
        cached2 ==
            IF differs
            THEN [cachedState EXCEPT
                     !.data = currentValue,
                     !.offset = streamStoreOffset(cachedState.writePos, space, ConstantBufferSize),
                     !.writePos = streamStoreNext(cachedState.writePos, space, ConstantBufferSize)]
            ELSE cachedState
    IN  IF differs /\ fail = "reserveVertexSpace"
        THEN [err |-> TRUE, tr |-> tr, cached |-> cachedState, events |-> <<>>]
        ELSE IF differs /\ fail = "storeVertexAttributes"
        THEN [err |-> TRUE, tr |-> tr, cached |-> cachedState,
              events |-> <<Event("reserve", ConstId(slot), slot, 1, 0)>>]
        ELSE [err |-> FALSE,
              tr |-> [tr EXCEPT !.storage = NoBuffer,
                                !.vertexBuffer = ConstId(slot),
                                !.serial = ConstId(slot),
                                !.divisor = 0,
                                !.currentValueType = currentValue.Type,
                                !.stride = 0,
                                !.offset = cached2.offset],
              cached |-> cached2,
              events |-> IF differs
                         THEN <<Event("reserve", ConstId(slot), slot, 1, 0),
                                Event("store", ConstId(slot), slot, 1, 0)>>
                         ELSE <<>>]

\* The hints of hintUnmapAllResources, in the order it issues them.
RECURSIVE StaticHints(_, _, _)
StaticHints(i, attribs, svb) ==
    IF i > NumSlots THEN <<>>
    ELSE (IF attribs[i].enabled /\ StaticBufferOf(attribs[i], svb).present
          THEN <<Event("hint", StaticId(attribs[i].buffer), i, 0, 0)>>
          ELSE <<>>) \o StaticHints(i + 1, attribs, svb)

RECURSIVE CurrentValueHints(_, _)
CurrentValueHints(i, cache) ==
    IF i > NumSlots THEN <<>>
    ELSE (IF cache[i].buffer THEN <<Event("hint", ConstId(i), i, 0, 0)>> ELSE <<>>)
         \o CurrentValueHints(i + 1, cache)

\* hintUnmapAllResources that hints the streaming buffer only.
hintUnmapAllResources_StreamOnly(attribs, svb, cache) ==
    <<Event("hint", StreamId, 0, 0, 0)>>

hintUnmapAllResources(attribs, svb, cache) ==
    <<Event("hint", StreamId, 0, 0, 0)>>
        \o StaticHints(1, attribs, svb) \o CurrentValueHints(1, cache)

\* BufferD3D::promoteStaticUsage: a buffer used unmodified often enough is
\* given a static vertex buffer; `promote` tells whether this use is enough.
promoteStaticUsage(sb, promote) ==
    IF promote /\ ~sb.present THEN EmptyStatic ELSE sb

\* The promotion loop without the test of translated[i].active.
RECURSIVE PromoteStaticUsage_IgnoresActive(_, _)
PromoteStaticUsage_IgnoresActive(i, d) ==
    IF i > NumSlots THEN <<>>
    ELSE (IF d.attribs[i].enabled /\ d.attribs[i].buffer # NoBuffer
          THEN <<Event("promote", SourceId(d.attribs[i].buffer), i,
                       d.count * ComputeVertexAttributeTypeSize(d.attribs[i]), 0)>>
          ELSE <<>>) \o PromoteStaticUsage_IgnoresActive(i + 1, d)

\* The last loop of prepareVertexData: one promoteStaticUsage per active,
\* enabled attribute bound to a server buffer.
RECURSIVE PromoteStaticUsage(_, _)
PromoteStaticUsage(i, d) ==
    IF i > NumSlots THEN <<>>
    ELSE (IF d.active[i] /\ d.attribs[i].enabled /\ d.attribs[i].buffer # NoBuffer
          THEN <<Event("promote", SourceId(d.attribs[i].buffer), i,
                       d.count * ComputeVertexAttributeTypeSize(d.attribs[i]), 0)>>
          ELSE <<>>) \o PromoteStaticUsage(i + 1, d)

\* ------------------------------------------------- vk_android_utils.cpp

ClientBuffers == {1, 2}

\* angle::android::ClientBufferToAHardwareBuffer: the hardware buffer behind
\* a client buffer, one per client buffer.
ClientBufferToAHardwareBuffer(clientBuffer) == <<"AHardwareBuffer", clientBuffer>>

HardwareBuffers == {ClientBufferToAHardwareBuffer(c) : c \in ClientBuffers}

\* What vkGetAndroidHardwareBufferPropertiesANDROID can return, what
\* AllocateBufferMemoryWithRequirements can return.
VkResults == {"VK_SUCCESS", "VK_ERROR_INVALID_EXTERNAL_HANDLE"}
AllocateResults == {"Continue", "Stop"}

NoCall == [op |-> "none", buffer |-> <<>>, result |-> "none", stage |-> "none"]

\* The build (with or without ANGLE_AHARDWARE_BUFFER_SUPPORT, not chosen
\* yet), per hardware buffer the AHardwareBuffer_acquire and
\* AHardwareBuffer_release calls made and the device memories imported, the
\* calls made so far, the last call and, per hardware buffer, the calls of
\* InitAndroidExternalMemory that returned Continue.
NoAndroid ==
    [support |-> "unset",
     acquires |-> [h \in HardwareBuffers |-> 0],
     releases |-> [h \in HardwareBuffers |-> 0],
     imported |-> [h \in HardwareBuffers |-> 0],
     successes |-> [h \in HardwareBuffers |-> 0],
     calls |-> 0,
     last |-> NoCall]

\* GetClientBufferMemoryRequirements, lines 25-53: ANGLE_VK_TRY returns Stop
\* unless the query returned VK_SUCCESS.
GetClientBufferMemoryRequirements(support, vkResult) ==
    IF support # "supported" THEN [result |-> "Stop", memRequirements |-> <<>>]
    ELSE IF vkResult # "VK_SUCCESS" THEN [result |-> "Stop", memRequirements |-> <<>>]
    ELSE [result |-> "Continue",
          memRequirements |-> [size |-> "allocationSize", alignment |-> 0,
                               memoryTypeBits |-> "memoryTypeBits"]]

\* InitAndroidExternalMemory that acquires the hardware buffer before it
\* imports the memory.
InitAndroidExternalMemory_AcquiresFirst(a, clientBuffer, vkResult, allocateResult) ==
    LET hardwareBuffer == ClientBufferToAHardwareBuffer(clientBuffer)
        requirements == GetClientBufferMemoryRequirements(a.support, vkResult)
        call(res, stage) ==
            [op |-> "init", buffer |-> hardwareBuffer, result |-> res, stage |-> stage]
    IN  IF a.support # "supported"
        THEN [a EXCEPT !.last = call("Stop", "unreachable")]
        ELSE IF requirements.result = "Stop"
        THEN [a EXCEPT !.last = call("Stop", "query")]
        ELSE IF allocateResult = "Stop"
        THEN [a EXCEPT !.acquires[hardwareBuffer] = @ + 1,
                       !.last = call("Stop", "allocate")]
        ELSE [a EXCEPT !.imported[hardwareBuffer] = @ + 1,
                       !.acquires[hardwareBuffer] = @ + 1,
                       !.last = call("Continue", "acquire")]

\* InitAndroidExternalMemory, lines 55-86: each ANGLE_TRY returns Stop when
\* its callee did; the acquire follows the import of the memory.
InitAndroidExternalMemory(a, clientBuffer, vkResult, allocateResult) ==
    LET hardwareBuffer == ClientBufferToAHardwareBuffer(clientBuffer)
        requirements == GetClientBufferMemoryRequirements(a.support, vkResult)
        call(res, stage) ==
            [op |-> "init", buffer |-> hardwareBuffer, result |-> res, stage |-> stage]
    IN  IF a.support # "supported"
        THEN [a EXCEPT !.last = call("Stop", "unreachable")]
        ELSE IF requirements.result = "Stop"
        THEN [a EXCEPT !.last = call("Stop", "query")]
        ELSE IF allocateResult = "Stop"
        THEN [a EXCEPT !.last = call("Stop", "allocate")]
        ELSE [a EXCEPT !.imported[hardwareBuffer] = @ + 1,
                       !.acquires[hardwareBuffer] = @ + 1,
                       !.last = call("Continue", "acquire")]

\* ReleaseAndroidExternalMemory, lines 88-95.
ReleaseAndroidExternalMemory(a, clientBuffer) ==
    LET hardwareBuffer == ClientBufferToAHardwareBuffer(clientBuffer)
        call == [op |-> "release", buffer |-> hardwareBuffer, result |-> "none",
                 stage |-> "none"]
    IN  IF a.support # "supported"
        THEN [a EXCEPT !.last = call]
        ELSE [a EXCEPT !.releases[hardwareBuffer] = @ + 1, !.last = call]

\* ------------------------------------------------------------ the state

VARIABLES
    mStreamingBuffer,     \* TRUE when the streaming buffer was allocated
    streamPos,            \* write position of the streaming buffer
    bufferSize,           \* BufferD3D::getSize of each server buffer
    staticVB,             \* static vertex buffer of each server buffer
    mCurrentValueCache,   \* CurrentValueState of each slot
    draw,                 \* arguments of the prepareVertexData call in progress
    translated,           \* the TranslatedAttribute array of the call
    pc,                   \* position of the call: idle, reserve, store, finish, done
    idx,                  \* loop index of the call; once it has failed, the slot
                          \* whose store failed, or minus the slot whose
                          \* reservation failed
    result,               \* gl::Error the call returned
    log,                  \* buffer operations of the call, in order
    pre,                  \* static buffers and constant cache when the call began
    hist,                 \* what the previous call did (history)
    fn,                   \* arguments and result of a function checked on its own
    android               \* hardware buffers as vk_android_utils.cpp leaves them

vars ==
    <<mStreamingBuffer, streamPos, bufferSize, staticVB, mCurrentValueCache, draw,
      translated, pc, idx, result, log, pre, hist, fn, android>>

\* ------------------------------------------------------- inputs of a draw

DisabledAttribute ==
    [enabled |-> FALSE, buffer |-> NoBuffer, stride |-> 0, offset |-> 0, divisor |-> 0]

DefaultValue == [Type |-> "GL_FLOAT", Bits |-> "one"]

\* What the vertex array, the program and the context state supply for one
\* slot.  Fields the code does not read are held fixed: the layout of a
\* disabled attribute, the layout of an attribute of an unused slot and the
\* current value of an enabled attribute.
EnabledSlots(divisors) ==
    {[active |-> TRUE, attrib |-> a, value |-> DefaultValue] :
        a \in {x \in Attributes : x.enabled /\ x.divisor \in divisors}}

ConstantSlots(values) ==
    {[active |-> TRUE, attrib |-> DisabledAttribute, value |-> v] : v \in values}

UnusedSlots ==
    {[active |-> FALSE, attrib |-> DisabledAttribute, value |-> DefaultValue]}
    \cup {[active |-> FALSE,
           attrib |-> [DisabledAttribute EXCEPT !.enabled = TRUE, !.buffer = b, !.stride = 8],
           value |-> DefaultValue] : b \in Buffers \cup {NoBuffer}}

DrawOf(slots, start, count, instances) ==
    [attribs |-> [i \in Slots |-> slots[i].attrib],
     active |-> [i \in Slots |-> slots[i].active],
     values |-> [i \in Slots |-> slots[i].value],
     start |-> start, count |-> count, instances |-> instances]

NoDraw ==
    DrawOf([i \in Slots |-> [active |-> FALSE, attrib |-> DisabledAttribute,
                             value |-> DefaultValue]], 0, 0, 0)

\* ------------------------------------------------------------- history

NoValue == [Type |-> "none", Bits |-> "none"]

NoConstant ==
    [valid |-> FALSE, value |-> NoValue, offset |-> 0, writes |-> 0, fresh |-> FALSE]

NoHistory ==
    [constant |-> [i \in Slots |-> NoConstant],
     lastStored |-> [i \in Slots |-> NoValue],
     stored |-> [b \in Buffers |-> {}],
     failed |-> {}]

NoFn == [args |-> <<>>, out |-> 0, done |-> FALSE]

Events(op) == {k \in DOMAIN log : log[k].op = op}

\* The buffer operations `op` the call made on behalf of slot i.
SlotEvents(op, i) == {k \in Events(op) : log[k].slot = i}

\* The operations `op` the call made on buffer `buf`.
BufferEvents(op, buf) == {k \in Events(op) : log[k].buf = buf}

\* The call returned a failure from the reservation loop, from the
\* translation loop.
ReservationFailed == pc = "done" /\ result = "GL_OUT_OF_MEMORY" /\ idx < 0
StoreFailed == pc = "done" /\ result = "GL_OUT_OF_MEMORY" /\ idx > 0

\* Slot i went through the translation loop without an error.
Translated(i) ==
    \/ pc = "store" /\ idx > i
    \/ pc = "finish"
    \/ pc = "done" /\ result = "GL_NO_ERROR"
    \/ StoreFailed /\ idx > i

\* The history the call leaves to the next one.  Per slot, the constant it
\* emitted and the constant last written to the slot's buffer; per server
\* buffer, the signatures stored since the static buffer was last invalidated;
\* the stores into static buffers of a call that failed.
HistoryOfCall ==
    [constant |->
        [i \in Slots |->
            IF draw.active[i] /\ ~draw.attribs[i].enabled /\ Translated(i)
            THEN [valid |-> TRUE, value |-> draw.values[i],
                  offset |-> translated[i].offset,
                  writes |-> Cardinality(SlotEvents("store", i)),
                  fresh |-> hist.lastStored[i] # draw.values[i]]
            ELSE NoConstant],
     lastStored |->
        [i \in Slots |->
            IF BufferEvents("store", ConstId(i)) # {} THEN draw.values[i]
            ELSE hist.lastStored[i]],
     stored |->
        [b \in Buffers |->
            (IF BufferEvents("invalidate", StaticId(b)) # {} THEN {} ELSE hist.stored[b])
            \cup {Signature(draw.attribs[log[k].slot]) :
                    k \in BufferEvents("store", StaticId(b))}],
     failed |->
        IF result = "GL_NO_ERROR" THEN {}
        ELSE UNION {{<<b, Signature(draw.attribs[log[k].slot])>> :
                        k \in BufferEvents("store", StaticId(b))} : b \in Buffers}]

\* ------------------------------------------------------------------ Init

\* The VertexDataManager as constructed, with server buffers that have no
\* static vertex buffer yet.
Constructed ==
    /\ mStreamingBuffer = TRUE
    /\ streamPos = 0
    /\ bufferSize = [b \in Buffers |-> BufferSize]
    /\ staticVB = [b \in Buffers |-> NoStatic]
    /\ mCurrentValueCache = [i \in Slots |-> InitialCurrentValueState]
    /\ draw = NoDraw
    /\ translated = [i \in Slots |-> BlankTranslated]
    /\ pc = "idle"
    /\ idx = 0
    /\ result = "none"
    /\ log = <<>>
    /\ pre = [staticVB |-> staticVB, cache |-> mCurrentValueCache]
    /\ hist = NoHistory
    /\ android = NoAndroid

Init == Constructed /\ fn = NoFn

\* --------------------------------------------------------------- actions

\* prepareVertexData, lines 122-148: entry and the invalidation loop, for a
\* draw whose slots, start, count and instance count come from the given sets.
BeginDraw(slotInputs, starts, counts, instanceCounts) ==
    /\ pc = "idle"
    /\ mStreamingBuffer
    /\ \E slots \in [Slots -> slotInputs], start \in starts,
          count \in counts, instances \in instanceCounts :
          LET d == DrawOf(slots, start, count, instances)
              pass == InvalidatePass(1, d, [svb |-> staticVB, events |-> <<>>])
          IN  /\ draw' = d
              /\ translated' = [i \in Slots |-> [BlankTranslated EXCEPT !.active = d.active[i]]]
              /\ staticVB' = pass.svb
              /\ log' = pass.events
    /\ pre' = [staticVB |-> staticVB, cache |-> mCurrentValueCache]
    /\ pc' = "reserve"
    /\ idx' = 1
    /\ UNCHANGED <<mStreamingBuffer, streamPos, bufferSize, mCurrentValueCache, result,
                   hist, fn, android>>

\* prepareVertexData, lines 150-161: one iteration of the reservation loop.
ReserveStep ==
    /\ pc = "reserve"
    /\ \E fail \in BOOLEAN :
          LET i == idx
              r == IF translated[i].active /\ draw.attribs[i].enabled
                   THEN reserveSpaceForAttrib(draw.attribs[i], draw.values[i], draw.count,
                                              draw.instances, staticVB, bufferSize, i, fail)
                   ELSE [err |-> FALSE, events |-> <<>>]
          IN  /\ log' = log \o r.events
              /\ IF r.err
                 THEN /\ result' = "GL_OUT_OF_MEMORY"
                      /\ pc' = "done"
                      /\ idx' = -i
                 ELSE /\ result' = result
                      /\ pc' = IF i = NumSlots THEN "store" ELSE "reserve"
                      /\ idx' = IF i = NumSlots THEN 1 ELSE i + 1
    /\ UNCHANGED <<mStreamingBuffer, streamPos, bufferSize, staticVB, mCurrentValueCache,
                   draw, translated, pre, hist, fn, android>>

\* prepareVertexData, lines 163-199: one iteration of the translation loop.
StoreStep ==
    /\ pc = "store"
    /\ \E fail \in FailPoints :
          LET i == idx
              created == [mCurrentValueCache[i] EXCEPT !.buffer = TRUE]
              creation == IF mCurrentValueCache[i].buffer THEN <<>>
                          ELSE <<Event("create", ConstId(i), i, 0, 0)>>
              r == IF ~translated[i].active
                   THEN [err |-> FALSE, tr |-> translated[i], svb |-> staticVB,
                         spos |-> streamPos, cached |-> mCurrentValueCache[i],
                         events |-> <<>>]
                   ELSE IF draw.attribs[i].enabled
                   THEN LET s == storeAttribute(draw.values[i], translated[i],
                                     draw.attribs[i], draw.start, draw.count,
                                     draw.instances, staticVB, streamPos, bufferSize, i,
                                     fail)
                        IN  [err |-> s.err, tr |-> s.tr, svb |-> s.svb, spos |-> s.spos,
                             cached |-> mCurrentValueCache[i], events |-> s.events]
                   ELSE LET s == storeCurrentValue(draw.values[i], translated[i],
                                     draw.attribs[i], created, i, fail)
                        IN  [err |-> s.err, tr |-> s.tr, svb |-> staticVB,
                             spos |-> streamPos, cached |-> s.cached,
                             events |-> creation \o s.events]
              cache2 == [mCurrentValueCache EXCEPT ![i] = r.cached]
          IN  /\ translated' = [translated EXCEPT ![i] = r.tr]
              /\ staticVB' = r.svb
              /\ streamPos' = r.spos
              /\ mCurrentValueCache' = cache2
              /\ IF r.err
                 THEN /\ log' = log \o r.events
                                 \o hintUnmapAllResources(draw.attribs, r.svb, cache2)
                      /\ result' = "GL_OUT_OF_MEMORY"
                      /\ pc' = "done"
                      /\ idx' = i
                 ELSE /\ log' = log \o r.events
                      /\ result' = result
                      /\ pc' = IF i = NumSlots THEN "finish" ELSE "store"
                      /\ idx' = IF i = NumSlots THEN 0 ELSE i + 1
    /\ UNCHANGED <<mStreamingBuffer, bufferSize, draw, pre, hist, fn, android>>

\* prepareVertexData, lines 201-219: the unmap hints, the usage promotion and
\* the successful return.
FinishDraw ==
    /\ pc = "finish"
    /\ log' = log \o hintUnmapAllResources(draw.attribs, staticVB, mCurrentValueCache)
                  \o PromoteStaticUsage(1, draw)
    /\ \E promote \in BOOLEAN :
          staticVB' =
              [b \in Buffers |->
                  IF \E i \in Slots : /\ draw.active[i]
                                      /\ draw.attribs[i].enabled
                                      /\ draw.attribs[i].buffer = b
                  THEN promoteStaticUsage(staticVB[b], promote)
                  ELSE staticVB[b]]
    /\ result' = "GL_NO_ERROR"
    /\ pc' = "done"
    /\ UNCHANGED <<mStreamingBuffer, streamPos, bufferSize, mCurrentValueCache,
                   draw, translated, idx, pre, hist, fn, android>>

\* The caller has the result; the records of the call are valid for that draw
\* only.  `history` is what is remembered of the call.
ReturnToCaller(history) ==
    /\ pc = "done"
    /\ pc' = "idle"
    /\ hist' = history
    /\ draw' = NoDraw
    /\ translated' = [i \in Slots |-> BlankTranslated]
    /\ result' = "none"
    /\ log' = <<>>
    /\ pre' = [staticVB |-> staticVB, cache |-> mCurrentValueCache]
    /\ idx' = 0
    /\ UNCHANGED <<mStreamingBuffer, streamPos, bufferSize, staticVB, mCurrentValueCache, fn, android>>

\* Draws of enabled attributes in every layout, of constants and of unused
\* slots, without instancing; no history is kept.
Next ==
    \/ BeginDraw(EnabledSlots({0}) \cup ConstantSlots(CurrentValues) \cup UnusedSlots,
                 {0}, {MaxCount}, {0})
    \/ ReserveStep
    \/ StoreStep
    \/ FinishDraw
    \/ ReturnToCaller(NoHistory)

Spec == Init /\ [][Next]_vars

\* Draws of enabled attributes in every layout and with every divisor, with
\* and without instancing, from every start.
NextAttrib ==
    \/ BeginDraw(EnabledSlots(Divisors) \cup UnusedSlots,
                 0 .. MaxStart, {MaxCount}, {0, MaxInstances})
    \/ ReserveStep
    \/ StoreStep
    \/ FinishDraw
    \/ ReturnToCaller(HistoryOfCall)

SpecAttrib == Init /\ [][NextAttrib]_vars

\* Draws of constants (disabled attributes), of one streamed attribute and of
\* unused slots.
NextConstant ==
    \/ BeginDraw(ConstantSlots(CurrentValues) \cup UnusedSlots
                     \cup {s \in EnabledSlots({0}) :
                              s.attrib.buffer = NoBuffer /\ s.attrib.stride = 0
                              /\ s.attrib.offset = 0},
                 {0}, {MaxCount}, {0})
    \/ ReserveStep
    \/ StoreStep
    \/ FinishDraw
    \/ ReturnToCaller(HistoryOfCall)

SpecConstant == Init /\ [][NextConstant]_vars

\* Draws of enabled attributes without instancing, from start 0 and from the
\* starts at which start * 16 reaches the width of unsigned int.
WrapStarts == {0, UIntMod \div 16 - 1, UIntMod \div 16}

NextOverflow ==
    \/ BeginDraw(EnabledSlots({0}) \cup ConstantSlots({DefaultValue}), WrapStarts,
                 {MaxCount}, {0})
    \/ ReserveStep
    \/ StoreStep
    \/ FinishDraw
    \/ ReturnToCaller(NoHistory)

SpecOverflow == Init /\ [][NextOverflow]_vars

\* --------------------------------------- the element count on its own

InitCount ==
    /\ Constructed
    /\ fn \in {[args |-> <<c, n, d>>, out |-> 0, done |-> FALSE] :
                  c \in 0 .. MaxFnCount, n \in 0 .. MaxFnInstances, d \in 0 .. MaxFnDivisor}

\* StreamingBufferElementCount applied to the chosen vertex count, instance
\* count and divisor.
ElementCountStep ==
    /\ ~fn.done
    /\ fn' = [fn EXCEPT
                 !.out = StreamingBufferElementCount(
                             [DisabledAttribute EXCEPT !.enabled = TRUE, !.divisor = fn.args[3]],
                             fn.args[1], fn.args[2]),
                 !.done = TRUE]
    /\ UNCHANGED <<mStreamingBuffer, streamPos, bufferSize, staticVB, mCurrentValueCache,
                   draw, translated, pc, idx, result, log, pre, hist, android>>

NextCount == ElementCountStep

SpecCount == InitCount /\ [][NextCount]_vars

\* Draws, from every start, of attributes of one server buffer that share a
\* stride and differ in the offset, so that two of them have one signature.
ReuseOffsets == {0, 4, 12}

ReuseSlots ==
    {[active |-> TRUE,
      attrib |-> [DisabledAttribute EXCEPT !.enabled = TRUE, !.buffer = 1, !.stride = 8,
                                            !.offset = o],
      value |-> DefaultValue] : o \in ReuseOffsets}
    \cup {[active |-> FALSE, attrib |-> DisabledAttribute, value |-> DefaultValue]}

\* The first-element offset and the start offset storeAttribute adds to the
\* offset of a static buffer entry for slot i.
EntryTerms(i) ==
    CDiv(draw.attribs[i].offset, ComputeVertexAttributeStride(draw.attribs[i]))
        * OutputElementSize(draw.attribs[i])
    + (IF draw.instances > 0 /\ draw.attribs[i].divisor > 0 THEN 0
       ELSE draw.start * OutputElementSize(draw.attribs[i]))

\* The history of the conversions: per server buffer, for every attribute the
\* call converted from scratch into the static buffer and emitted, its
\* signature, the vertex buffer and the base offset of the region emitted and
\* the number of elements converted, kept until the buffer is invalidated.
ConversionsOfCall ==
    [hist EXCEPT
        !.stored =
            [b \in Buffers |->
                (IF BufferEvents("invalidate", StaticId(b)) # {} THEN {} ELSE hist.stored[b])
                \cup {[sig |-> Signature(draw.attribs[log[k].slot]),
                       serial |-> translated[log[k].slot].vertexBuffer,
                       base |-> translated[log[k].slot].offset - EntryTerms(log[k].slot),
                       count |-> log[k].count] :
                         k \in {j \in BufferEvents("store", StaticId(b)) :
                                   Translated(log[j].slot)}}]]

NextReuse ==
    \/ BeginDraw(ReuseSlots, 0 .. MaxStart, {MaxCount}, {0})
    \/ ReserveStep
    \/ StoreStep
    \/ FinishDraw
    \/ ReturnToCaller(ConversionsOfCall)

SpecReuse == Init /\ [][NextReuse]_vars

\* The history of the failures: the slot and the constant of the
\* storeCurrentValue that failed in the call, and whether its reservation or
\* its store failed.
FailuresOfCall ==
    [hist EXCEPT
        !.failed =
            {[slot |-> i, value |-> draw.values[i],
              step |-> IF SlotEvents("reserve", i) = {} THEN "reserve" ELSE "store"] :
                i \in {j \in Slots : StoreFailed /\ idx = j /\ ~draw.attribs[j].enabled}}]

\* Draws of constants, of one streamed attribute and of unused slots, each
\* knowing which constant the call before failed to store.
NextRetry ==
    \/ BeginDraw(ConstantSlots(CurrentValues) \cup UnusedSlots
                     \cup {s \in EnabledSlots({0}) :
                              s.attrib.buffer = NoBuffer /\ s.attrib.stride = 0
                              /\ s.attrib.offset = 0},
                 {0}, {MaxCount}, {0})
    \/ ReserveStep
    \/ StoreStep
    \/ FinishDraw
    \/ ReturnToCaller(FailuresOfCall)

SpecRetry == Init /\ [][NextRetry]_vars

\* ------------------------------------ the elements in a buffer on its own

\* Buffer sizes, offsets and strides ElementsInBuffer is checked for: the empty
\* buffer, sizes around the largest int, every offset below MaxFnOffset.
MaxFnOffset == 12
FnSizes == {0, 1, 16, IntMax, IntMax + 1, UIntMod - 1}
FnStrides == {0, 8, 12}

InitElements ==
    /\ Constructed
    /\ fn \in {[args |-> <<size, offset, stride>>, out |-> 0, done |-> FALSE] :
                  size \in FnSizes, offset \in 0 .. MaxFnOffset, stride \in FnStrides}

\* ElementsInBuffer applied to the chosen buffer size, offset and stride.
ElementsInBufferStep ==
    /\ ~fn.done
    /\ fn' = [fn EXCEPT
                 !.out = ElementsInBuffer(
                             [DisabledAttribute EXCEPT !.enabled = TRUE, !.buffer = 1,
                                                       !.offset = fn.args[2],
                                                       !.stride = fn.args[3]],
                             fn.args[1]),
                 !.done = TRUE]
    /\ UNCHANGED <<mStreamingBuffer, streamPos, bufferSize, staticVB, mCurrentValueCache,
                   draw, translated, pc, idx, result, log, pre, hist, android>>

NextElements == ElementsInBufferStep

SpecElements == InitElements /\ [][NextElements]_vars

\* ------------------------------------------ the hardware buffers on their own

DrawState ==
    <<mStreamingBuffer, streamPos, bufferSize, staticVB, mCurrentValueCache, draw,
      translated, pc, idx, result, log, pre, hist, fn>>

\* The build is made with or without ANGLE_AHARDWARE_BUFFER_SUPPORT.
SelectBuild ==
    /\ android.support = "unset"
    /\ \E support \in {"supported", "unsupported"} :
          android' = [android EXCEPT !.support = support]
    /\ UNCHANGED DrawState

\* A call of InitAndroidExternalMemory, with what the query of the memory
\* requirements and the allocation return; the caller counts the calls that
\* returned Continue.
CallInitAndroidExternalMemory ==
    /\ android.support # "unset"
    /\ android.calls < MaxAndroidCalls
    /\ \E clientBuffer \in ClientBuffers, vkResult \in VkResults,
          allocateResult \in AllocateResults :
          LET after == InitAndroidExternalMemory(android, clientBuffer, vkResult,
                                                 allocateResult)
              hardwareBuffer == ClientBufferToAHardwareBuffer(clientBuffer)
          IN  android' =
                  [after EXCEPT
                      !.calls = @ + 1,
                      !.successes[hardwareBuffer] =
                          IF after.last.result = "Continue" THEN @ + 1 ELSE @]
    /\ UNCHANGED DrawState

\* A call of ReleaseAndroidExternalMemory.
CallReleaseAndroidExternalMemory ==
    /\ android.support # "unset"
    /\ android.calls < MaxAndroidCalls
    /\ \E clientBuffer \in ClientBuffers :
          android' = [ReleaseAndroidExternalMemory(android, clientBuffer)
                         EXCEPT !.calls = @ + 1]
    /\ UNCHANGED DrawState

NextAndroid ==
    \/ SelectBuild
    \/ CallInitAndroidExternalMemory
    \/ CallReleaseAndroidExternalMemory

SpecAndroid == Init /\ [][NextAndroid]_vars

\* ------------------------------------------------------------ the claims

\* The unmap hints the call gave to buffer `buf`.
Hints(buf) == Cardinality(BufferEvents("hint", buf))

\* The buffers the call stored into (mapped).
Mapped == {log[k].buf : k \in Events("store")}

\* The enabled attributes bound to server buffer b.
EnabledOn(b) == {i \in Slots : draw.attribs[i].enabled /\ draw.attribs[i].buffer = b}

\* C1: every return of prepareVertexData that follows a reservation failure or
\* a store failure is preceded, in the same call, by an unmap hint to the
\* streaming buffer, to the static buffer of every enabled attribute's server
\* buffer and to every existing constant-value buffer.
C1_UnmapHintOnEveryFailure ==
    (ReservationFailed \/ StoreFailed) =>
        /\ Hints(StreamId) >= 1
        /\ \A b \in Buffers :
              staticVB[b].present /\ EnabledOn(b) # {} => Hints(StaticId(b)) >= 1
        /\ \A i \in Slots : mCurrentValueCache[i].buffer => Hints(ConstId(i)) >= 1

\* C2 as stated: when a store of the translation loop fails, every buffer
\* mapped during the call has received exactly one unmap hint when the failure
\* is returned.
C2_ExactlyOneHintPerMappedBuffer ==
    StoreFailed => \A buf \in Mapped \cup {StreamId} : Hints(buf) = 1

\* C2 as amended: when a store of the translation loop fails, every buffer
\* mapped during the call has received at least one unmap hint, after the last
\* store, when the failure is returned: the streaming buffer and every existing
\* constant-value buffer exactly one, a static buffer one per enabled attribute
\* bound to its server buffer.
C2_HintsAfterStoreFailure ==
    StoreFailed =>
        /\ \A buf \in Mapped : Hints(buf) >= 1
        /\ Hints(StreamId) = 1
        /\ \A i \in Slots : Hints(ConstId(i)) = IF mCurrentValueCache[i].buffer THEN 1 ELSE 0
        /\ \A b \in Buffers :
              Hints(StaticId(b)) = IF staticVB[b].present THEN Cardinality(EnabledOn(b)) ELSE 0
        /\ \A k \in Events("hint") : \A j \in Events("store") \cup Events("reserve") : j < k

\* A store failed after a static buffer shared by two enabled attributes was
\* stored into.
C2_Witness ==
    /\ StoreFailed
    /\ \E b \in Buffers : StaticId(b) \in Mapped /\ Hints(StaticId(b)) = 2

\* C3: a slot that is active and disabled has its constant-value buffer written
\* (reserve and store) only in a draw whose constant differs, by the typed and
\* exact comparison, from the value last stored for the slot; a draw of a new
\* constant followed by a draw of the same constant makes exactly one write
\* between them, and the second draw emits the byte offset of the first.
C3_ConstantWrittenOncePerValue ==
    \A i \in Slots :
        draw.active[i] /\ ~draw.attribs[i].enabled =>
            /\ SlotEvents("reserve", i) \cup SlotEvents("store", i) # {} =>
                  CurrentValueDiffers(hist.lastStored[i], draw.values[i])
            /\ /\ Translated(i)
               /\ hist.constant[i].valid
               /\ hist.constant[i].fresh
               /\ hist.constant[i].value = draw.values[i]
               => /\ hist.constant[i].writes + Cardinality(SlotEvents("store", i)) = 1
                  /\ translated[i].offset = hist.constant[i].offset

\* Slot i of the draw is an active, enabled attribute bound to a server buffer
\* whose static buffer was populated when the call began.
OnPopulated(i) ==
    /\ draw.active[i]
    /\ draw.attribs[i].enabled
    /\ draw.attribs[i].buffer # NoBuffer
    /\ pre.staticVB[draw.attribs[i].buffer].present
    /\ pre.staticVB[draw.attribs[i].buffer].size > 0

\* ... and the static buffer had no entry for the attribute, which cannot be
\* stored directly.
InvalidationDue(i) ==
    /\ OnPopulated(i)
    /\ ~lookupAttribute(pre.staticVB[draw.attribs[i].buffer], draw.attribs[i])
    /\ ~directStoragePossible(draw.attribs[i], draw.values[i])

\* The first loop of prepareVertexData has just ended.
AfterInvalidatePass == pc = "reserve" /\ idx = 1

\* C4: when a draw uses an active, enabled attribute bound to a server buffer
\* whose static buffer is populated and has no entry for the attribute, and
\* direct storage is not possible, the static buffer is reset to empty in the
\* first loop of the call, before every reservation and store of the call, and
\* no entry cached before the call is found afterwards unless the call stored
\* it again.
C4_MismatchInvalidatesBeforeRepopulation ==
    \A i \in Slots :
        pc # "idle" /\ InvalidationDue(i) =>
            LET b == draw.attribs[i].buffer
            IN  /\ Cardinality(BufferEvents("invalidate", StaticId(b))) = 1
                /\ \A k \in BufferEvents("invalidate", StaticId(b)) :
                      \A j \in Events("reserve") \cup Events("store") : k < j
                /\ AfterInvalidatePass => staticVB[b] = EmptyStatic
                /\ \A e \in staticVB[b].cache :
                      \E k \in BufferEvents("store", StaticId(b)) :
                          Signature(draw.attribs[log[k].slot]) = e.sig

\* A draw that found a populated static buffer without the attribute has reset
\* it, stored the attribute again and returned.
C4_Witness ==
    /\ pc = "done"
    /\ result = "GL_NO_ERROR"
    /\ \E i \in Slots :
          /\ InvalidationDue(i)
          /\ SlotEvents("store", i) # {}
          /\ pre.staticVB[draw.attribs[i].buffer].cache
                 \cap staticVB[draw.attribs[i].buffer].cache = {}

\* C5 as stated: once the first loop of prepareVertexData has processed an
\* active, enabled attribute for which direct storage is possible, on a server
\* buffer whose static buffer was populated, that static buffer is empty.
C5_DirectStorageResetsCache ==
    \A i \in Slots :
        /\ AfterInvalidatePass
        /\ OnPopulated(i)
        /\ directStoragePossible(draw.attribs[i], draw.values[i])
        => staticVB[draw.attribs[i].buffer] = EmptyStatic

\* C5 as amended: an attribute for which direct storage is possible never
\* resets a static buffer; a populated static buffer all of whose active,
\* enabled attributes in the draw can be stored directly is left as it was.
C5_DirectStorageKeepsCache ==
    pc # "idle" =>
        /\ \A k \in Events("invalidate") :
              ~directStoragePossible(draw.attribs[log[k].slot], draw.values[log[k].slot])
        /\ \A b \in Buffers :
              /\ pre.staticVB[b].size > 0
              /\ \A i \in Slots :
                    draw.active[i] /\ draw.attribs[i].enabled /\ draw.attribs[i].buffer = b
                    => directStoragePossible(draw.attribs[i], draw.values[i])
              => staticVB[b] = pre.staticVB[b]

\* A draw has returned whose only use of a populated static buffer's server
\* buffer was an attribute stored directly, absent from the cache.
C5_Witness ==
    /\ pc = "done"
    /\ result = "GL_NO_ERROR"
    /\ \E i \in Slots :
          /\ OnPopulated(i)
          /\ directStoragePossible(draw.attribs[i], draw.values[i])
          /\ ~lookupAttribute(pre.staticVB[draw.attribs[i].buffer], draw.attribs[i])
          /\ \A j \in Slots :
                draw.active[j] /\ draw.attribs[j].enabled
                /\ draw.attribs[j].buffer = draw.attribs[i].buffer
                => directStoragePossible(draw.attribs[j], draw.values[j])
          /\ staticVB[draw.attribs[i].buffer].size > 0

\* Slot i of the draw is an active, enabled attribute bound to server buffer b.
UsesBuffer(i, b) ==
    /\ pc # "idle"
    /\ draw.active[i]
    /\ draw.attribs[i].enabled
    /\ draw.attribs[i].buffer = b

\* The byte offset storeAttribute derives from a static buffer entry at
\* `cached` for the attribute of slot i.
OffsetFromEntry(i, cached) ==
    LET attrib == draw.attribs[i]
        instanced == draw.instances > 0 /\ attrib.divisor > 0
    IN  ToUInt(cached
               + ToUInt(CDiv(attrib.offset, ComputeVertexAttributeStride(attrib))
                            * OutputElementSize(attrib))
               + (IF instanced THEN 0 ELSE ToUInt(draw.start * OutputElementSize(attrib))))

\* Slot i is served by the static buffer of b from an entry found by lookup:
\* no reservation, no store, and once translated the offset of that entry.
ServedByLookup(i, b) ==
    /\ lookupAttribute(pre.staticVB[b], draw.attribs[i])
    /\ SlotEvents("reserve", i) = {}
    /\ SlotEvents("store", i) = {}
    /\ Translated(i) =>
          /\ translated[i].vertexBuffer = StaticId(b)
          /\ translated[i].offset =
                 OffsetFromEntry(i, lookupOffset(pre.staticVB[b], draw.attribs[i]))

\* C6: once a draw has stored an attribute signature into a server buffer's
\* static buffer, a later draw with the same signature on that buffer, with no
\* invalidation in between, makes no reservation and no store for it and takes
\* the byte offset from the entry stored before.
C6_StoredSignatureIsLookedUp ==
    \A i \in Slots : \A b \in Buffers :
        /\ UsesBuffer(i, b)
        /\ Signature(draw.attribs[i]) \in hist.stored[b]
        /\ BufferEvents("invalidate", StaticId(b)) = {}
        => ServedByLookup(i, b)

\* A draw was translated from an entry that an earlier draw had stored.
C6_Witness ==
    /\ pc = "done"
    /\ result = "GL_NO_ERROR"
    /\ \E i \in Slots : \E b \in Buffers :
          /\ UsesBuffer(i, b)
          /\ Signature(draw.attribs[i]) \in hist.stored[b]
          /\ BufferEvents("invalidate", StaticId(b)) = {}
          /\ translated[i].vertexBuffer = StaticId(b)
          /\ draw.start > 0

Ceiling(n, d) == CHOOSE q \in 0 .. n : q * d >= n /\ (q = 0 \/ (q - 1) * d < n)

\* C8: the divisor-aware element count is ceil(instanceCount / divisor) when
\* instanceCount > 0 and divisor > 0 and vertexCount otherwise; (5, 3) gives 2
\* and (0, 0) gives vertexCount.
C8_ElementCountRoundsUp ==
    fn.done =>
        LET vertexCount == fn.args[1]
            instanceCount == fn.args[2]
            divisor == fn.args[3]
        IN  /\ instanceCount > 0 /\ divisor > 0 => fn.out = Ceiling(instanceCount, divisor)
            /\ instanceCount = 0 \/ divisor = 0 => fn.out = vertexCount
            /\ instanceCount = 5 /\ divisor = 3 => fn.out = 2

\* The count was computed for 5 instances and divisor 3.
C8_Witness == fn.done /\ fn.args[2] = 5 /\ fn.args[3] = 3 /\ fn.out = 2

\* Slot i of the draw is an active, enabled attribute.
Enabled(i) == pc # "idle" /\ draw.active[i] /\ draw.attribs[i].enabled

\* Slot i is an active, enabled attribute for which direct storage is possible.
DirectlyStored(i) ==
    Enabled(i) /\ directStoragePossible(draw.attribs[i], draw.values[i])

\* The first vertex index of slot i as the spec gives it.
FirstIndex(i) ==
    IF draw.instances > 0 /\ draw.attribs[i].divisor > 0 THEN 0 ELSE draw.start

\* C9: when direct storage is possible for an active, enabled attribute, the
\* draw makes no reservation and no store for it, and the record emitted has
\* byteOffset = attrib.offset + stride * firstVertexIndex, the attribute's
\* source stride and the serial of the source buffer.
C9_DirectStorageMovesNoData ==
    \A i \in Slots :
        DirectlyStored(i) =>
            /\ SlotEvents("reserve", i) = {}
            /\ SlotEvents("store", i) = {}
            /\ Translated(i) =>
                  /\ translated[i].offset =
                         draw.attribs[i].offset
                         + ComputeVertexAttributeStride(draw.attribs[i]) * FirstIndex(i)
                  /\ translated[i].stride = ComputeVertexAttributeStride(draw.attribs[i])
                  /\ translated[i].serial = SourceId(draw.attribs[i].buffer)
                  /\ translated[i].storage = draw.attribs[i].buffer

\* A draw from a start above 0 has emitted a directly stored attribute that has
\* an offset of its own.
C9_Witness ==
    /\ pc = "done"
    /\ result = "GL_NO_ERROR"
    /\ draw.start > 0
    /\ \E i \in Slots :
          /\ DirectlyStored(i)
          /\ draw.attribs[i].offset > 0
          /\ draw.attribs[i].divisor = 0
          /\ translated[i].offset > draw.attribs[i].offset

\* C10: the first vertex index of an attribute with divisor > 0 in a draw with
\* instanceCount > 0 is 0, that of every other attribute is drawStart, in each
\* of the three paths: the offset of a directly stored attribute, the offset
\* into the static buffer, and the first index passed to the streaming store.
C10_InstancedAttributesIgnoreStart ==
    \A i \in Slots :
        Enabled(i) /\ Translated(i) =>
            LET attrib == draw.attribs[i]
                b == attrib.buffer
            IN  IF DirectlyStored(i)
                THEN translated[i].offset
                         = attrib.offset + ComputeVertexAttributeStride(attrib) * FirstIndex(i)
                ELSE IF translated[i].vertexBuffer = StreamId
                THEN /\ Cardinality(SlotEvents("store", i)) = 1
                     /\ \A k \in SlotEvents("store", i) : log[k].first = FirstIndex(i)
                ELSE /\ translated[i].vertexBuffer = StaticId(b)
                     /\ translated[i].offset
                            = lookupOffset(staticVB[b], attrib)
                              + CDiv(attrib.offset, ComputeVertexAttributeStride(attrib))
                                    * translated[i].stride
                              + FirstIndex(i) * translated[i].stride

\* An instanced draw from a start above 0 has translated an attribute with a
\* divisor from a static buffer and streamed an attribute without one.
C10_Witness ==
    /\ pc = "done"
    /\ result = "GL_NO_ERROR"
    /\ draw.start > 0
    /\ draw.instances > 0
    /\ \E i, j \in Slots :
          /\ Enabled(i)
          /\ draw.attribs[i].divisor > 0
          /\ ~DirectlyStored(i)
          /\ translated[i].vertexBuffer = StaticId(draw.attribs[i].buffer)
          /\ Enabled(j)
          /\ draw.attribs[j].divisor = 0
          /\ translated[j].vertexBuffer = StreamId
          /\ \E k \in SlotEvents("store", j) : log[k].first = draw.start

\* The byte offset of the record of slot i computed in unbounded integers:
\* attrib.offset + stride * firstVertexIndex when stored directly, the cached
\* offset + first-element offset + start offset in a static buffer.
ExactOffset(i) ==
    LET attrib == draw.attribs[i]
        stride == ComputeVertexAttributeStride(attrib)
    IN  IF DirectlyStored(i)
        THEN attrib.offset + stride * FirstIndex(i)
        ELSE lookupOffset(staticVB[attrib.buffer], attrib)
             + CDiv(attrib.offset, stride) * OutputElementSize(attrib)
             + FirstIndex(i) * OutputElementSize(attrib)

\* C11: storeAttribute never emits a wrapped byte offset: a record emitted for a
\* directly stored attribute or from a static buffer carries the exact value
\* of its offset, which fits in an unsigned int; when it does not fit, the
\* call fails instead.
C11_NoWrappedOffset ==
    \A i \in Slots :
        /\ Enabled(i)
        /\ Translated(i)
        /\ translated[i].vertexBuffer # StreamId \/ DirectlyStored(i)
        => /\ ExactOffset(i) < UIntMod
           /\ translated[i].offset = ExactOffset(i)

\* The greatest q with q * d <= n, for d > 0.
Floor(n, d) == CHOOSE q \in -(d + 1) .. UIntMod : q * d <= n /\ (q + 1) * d > n

\* C12: ElementsInBuffer returns floor((S - offset mod stride + (stride -
\* elemSize)) / stride) with S first clamped to the largest int, and for a
\* buffer of size 0 the result is not positive, whatever the offset and the
\* stride (elemSize <= stride).
C12_ElementsInBufferIsTheFloor ==
    fn.done =>
        LET S == IF fn.args[1] > IntMax THEN IntMax ELSE fn.args[1]
            offset == fn.args[2]
            stride == IF fn.args[3] = 0 THEN 4 ELSE fn.args[3]
            elemSize == 4
        IN  /\ fn.out = Floor(S - (offset % stride) + (stride - elemSize), stride)
            /\ fn.args[1] = 0 => fn.out <= 0

\* C13: usage promotion happens only on success and only after the unmap
\* hints: a successful prepareVertexData calls promoteStaticUsage exactly once
\* for every active, enabled attribute bound to a server buffer, on that
\* buffer, after hintUnmapAllResources has run; a call that has not succeeded
\* has promoted no buffer.
C13_PromotionOnlyOnSuccessAfterHints ==
    /\ pc = "done" /\ result = "GL_NO_ERROR" =>
          /\ \A i \in Slots :
                IF draw.active[i] /\ draw.attribs[i].enabled
                   /\ draw.attribs[i].buffer # NoBuffer
                THEN /\ Cardinality(SlotEvents("promote", i)) = 1
                     /\ \A k \in SlotEvents("promote", i) :
                           /\ log[k].buf = SourceId(draw.attribs[i].buffer)
                           /\ log[k].count = draw.count * 4
                ELSE SlotEvents("promote", i) = {}
          /\ BufferEvents("hint", StreamId) # {}
          /\ \A k \in Events("promote") : \A h \in DOMAIN log :
                log[h].op # "promote" => h < k
    /\ ~(pc = "done" /\ result = "GL_NO_ERROR") =>
          /\ Events("promote") = {}
          /\ \A b \in Buffers : staticVB[b].present = pre.staticVB[b].present

\* A successful draw has promoted the server buffer of its one active attribute
\* and has not promoted for an enabled, buffer-bound attribute of an unused slot.
C13_Witness ==
    /\ pc = "done"
    /\ result = "GL_NO_ERROR"
    /\ Cardinality(Events("promote")) = 1
    /\ \E i \in Slots :
          ~draw.active[i] /\ draw.attribs[i].enabled /\ draw.attribs[i].buffer # NoBuffer

\* The number of elements addressable in the server buffer of slot i.
AddressableElements(i) ==
    LET attrib == draw.attribs[i]
        stride == ComputeVertexAttributeStride(attrib)
    IN  Floor(bufferSize[attrib.buffer] - (attrib.offset % stride) + (stride - 4), stride)

\* C14: a reservation in a static buffer is made only when that buffer is empty
\* and direct storage is not possible, for the number of elements addressable
\* in the whole server buffer, whatever the start, the vertex count and the
\* instance count of the draw; a store into the static buffer follows a
\* reservation for the same attribute and converts that same number.
C14_StaticReservationCoversWholeBuffer ==
    \A b \in Buffers :
        /\ \A k \in BufferEvents("reserve", StaticId(b)) :
              LET i == log[k].slot
              IN  /\ UsesBuffer(i, b)
                  /\ pre.staticVB[b].present
                  /\ pre.staticVB[b].size = 0 \/ BufferEvents("invalidate", StaticId(b)) # {}
                  /\ ~directStoragePossible(draw.attribs[i], draw.values[i])
                  /\ log[k].count = AddressableElements(i)
                  /\ log[k].first = 0
        /\ \A k \in BufferEvents("store", StaticId(b)) :
              /\ log[k].count = AddressableElements(log[k].slot)
              /\ \E j \in BufferEvents("reserve", StaticId(b)) :
                    j < k /\ log[j].slot = log[k].slot /\ log[j].count = log[k].count

\* An instanced draw from a start above 0 has reserved and stored an attribute
\* with a divisor in a static buffer.
C14_Witness ==
    /\ pc = "done"
    /\ result = "GL_NO_ERROR"
    /\ draw.start > 0
    /\ draw.instances > 0
    /\ \E b \in Buffers : \E k \in BufferEvents("store", StaticId(b)) :
          /\ draw.attribs[log[k].slot].divisor > 0
          /\ log[k].count > 1

\* Slot i is an active, enabled attribute that cannot be stored directly and
\* whose source has no static buffer: it is streamed.
Streamed(i) ==
    /\ Enabled(i)
    /\ ~directStoragePossible(draw.attribs[i], draw.values[i])
    /\ ~StaticBufferOf(draw.attribs[i], pre.staticVB).present

\* The divisor-aware element count of slot i in the draw.
RequiredCount(i) ==
    IF draw.instances > 0 /\ draw.attribs[i].divisor > 0
    THEN Ceiling(draw.instances, draw.attribs[i].divisor)
    ELSE draw.count

\* C15: for an active, enabled attribute that is neither stored directly nor
\* served by a static buffer, a successful draw makes exactly one reservation
\* and then exactly one store in the streaming buffer, both for the
\* divisor-aware element count of the draw, whatever earlier draws stored.
C15_StreamedAttributesAreStoredEveryDraw ==
    pc = "done" /\ result = "GL_NO_ERROR" =>
        \A i \in Slots :
            Streamed(i) =>
                /\ Cardinality(SlotEvents("reserve", i)) = 1
                /\ Cardinality(SlotEvents("store", i)) = 1
                /\ \A k \in SlotEvents("reserve", i) \cup SlotEvents("store", i) :
                      log[k].buf = StreamId /\ log[k].count = RequiredCount(i)
                /\ \A k \in SlotEvents("reserve", i) : \A j \in SlotEvents("store", i) : k < j
                /\ translated[i].vertexBuffer = StreamId

\* A successful instanced draw has streamed the attribute of its first slot
\* behind the data of an earlier draw.
C15_Witness ==
    /\ pc = "done"
    /\ result = "GL_NO_ERROR"
    /\ Streamed(1)
    /\ draw.attribs[1].divisor > 0
    /\ draw.instances > 0
    /\ translated[1].offset > 0

\* C16: a slot the program does not use is emitted with active = false and is
\* skipped: the call invalidates no static buffer, reserves nothing, stores
\* nothing, creates and writes no constant-value buffer and promotes no buffer
\* on its behalf, whatever its enabled flag and its source; a call none of
\* whose slots is used changes no static buffer.
C16_UnusedSlotsAreSkipped ==
    pc # "idle" =>
        /\ \A i \in Slots :
              ~draw.active[i] =>
                  /\ translated[i] = BlankTranslated
                  /\ \A k \in DOMAIN log : log[k].slot = i => log[k].op = "hint"
                  /\ mCurrentValueCache[i] = pre.cache[i]
        /\ (\A i \in Slots : ~draw.active[i]) =>
              /\ staticVB = pre.staticVB
              /\ \A k \in DOMAIN log : log[k].op = "hint"

\* A draw has returned that left alone a populated static buffer which the
\* enabled attribute of an unused slot did not match.
C16_Witness ==
    /\ pc = "done"
    /\ result = "GL_NO_ERROR"
    /\ \E i \in Slots :
          /\ ~draw.active[i]
          /\ draw.attribs[i].enabled
          /\ draw.attribs[i].buffer # NoBuffer
          /\ pre.staticVB[draw.attribs[i].buffer].size > 0
          /\ ~lookupAttribute(pre.staticVB[draw.attribs[i].buffer], draw.attribs[i])
          /\ ~directStoragePossible(draw.attribs[i], draw.values[i])
          /\ staticVB[draw.attribs[i].buffer] = pre.staticVB[draw.attribs[i].buffer]

\* Slot i was translated from a static buffer entry converted earlier, by an
\* earlier call or for an earlier slot of this call: the call did not
\* invalidate the buffer and stored nothing for the slot.
Reused(i, b) ==
    /\ UsesBuffer(i, b)
    /\ Translated(i)
    /\ ~directStoragePossible(draw.attribs[i], draw.values[i])
    /\ BufferEvents("invalidate", StaticId(b)) = {}
    /\ SlotEvents("store", i) = {}

Writes == Events("store") \cup Events("create")

\* The reservations the reservation loop made: those for enabled attributes.
PassReservations == {k \in Events("reserve") : draw.attribs[log[k].slot].enabled}

\* C19: within one call no attribute or constant is stored and no constant
\* buffer is created until the reservation loop has succeeded for every
\* active, enabled attribute: while the loop runs and after it failed nothing
\* has been written to a static, streaming or constant buffer (a static
\* buffer is as the call found it or as the invalidation loop reset it) and
\* the cache of constants is unchanged; once there is a write, every
\* reservation of the loop precedes it and every streamed attribute has one.
C19_ReservationsPrecedeStores ==
    /\ (pc = "reserve" \/ ReservationFailed) =>
          /\ Writes = {}
          /\ mCurrentValueCache = pre.cache
          /\ \A b \in Buffers :
                staticVB[b] \in {pre.staticVB[b], invalidateStaticData(pre.staticVB[b])}
    /\ \A k \in Writes :
          /\ \A j \in PassReservations : j < k
          /\ \A i \in Slots : Streamed(i) => SlotEvents("reserve", i) # {}

\* A call failed in the reservation loop after a reservation had succeeded,
\* or with an active slot whose constant differs from the cached one.
C19_Witness ==
    /\ ReservationFailed
    /\ \/ PassReservations # {}
       \/ \E i \in Slots :
             /\ draw.active[i]
             /\ ~draw.attribs[i].enabled
             /\ CurrentValueDiffers(pre.cache[i].data, draw.values[i])

\* storeCurrentValue failed for slot i in the call.
ConstantFailed(i) ==
    StoreFailed /\ idx = i /\ draw.active[i] /\ ~draw.attribs[i].enabled

\* The call before failed to store the constant the draw has in slot i.
RetriedConstant(i) ==
    /\ pc # "idle"
    /\ draw.active[i]
    /\ ~draw.attribs[i].enabled
    /\ \E f \in hist.failed : f.slot = i /\ f.value = draw.values[i]

\* C20: when the reservation or the store of a constant fails in
\* storeCurrentValue, the slot's cached value and cached offset are as they
\* were before the call and the cached value still differs from the constant;
\* the next draw with the same constant does not take it for cached: when it
\* emits the slot it has written the constant and cached it at the offset
\* it emits.
C20_FailedConstantIsRetried ==
    \A i \in Slots :
        /\ ConstantFailed(i) =>
              /\ mCurrentValueCache[i].data = pre.cache[i].data
              /\ mCurrentValueCache[i].offset = pre.cache[i].offset
              /\ CurrentValueDiffers(mCurrentValueCache[i].data, draw.values[i])
        /\ (RetriedConstant(i) /\ Translated(i)) =>
              /\ SlotEvents("reserve", i) # {}
              /\ SlotEvents("store", i) # {}
              /\ mCurrentValueCache[i].data = draw.values[i]
              /\ translated[i].offset = mCurrentValueCache[i].offset

\* A draw succeeded with a constant whose store had failed in the call before,
\* in a slot that held another constant at an offset above 0.
C20_Witness ==
    /\ pc = "done"
    /\ result = "GL_NO_ERROR"
    /\ \E i \in Slots :
          /\ RetriedConstant(i)
          /\ \E f \in hist.failed : f.slot = i /\ f.step = "store"
          /\ pre.cache[i].offset > 0
          /\ SlotEvents("store", i) # {}

\* C21: InitAndroidExternalMemory acquires the hardware buffer exactly when
\* it returns Continue: a call that failed in the query of the memory
\* requirements or in the allocation acquired nothing, so after any sequence
\* of InitAndroidExternalMemory and ReleaseAndroidExternalMemory calls the
\* acquires of every hardware buffer are as many as the calls of
\* InitAndroidExternalMemory for it that returned Continue, and as many as
\* the memories imported from it.
C21_AcquiredExactlyOnSuccess ==
    /\ \A h \in HardwareBuffers :
          /\ android.acquires[h] = android.successes[h]
          /\ android.acquires[h] = android.imported[h]
    /\ android.last.op = "init" =>
          (android.last.result = "Continue" <=> android.last.stage = "acquire")

\* After a successful init and a release of one hardware buffer, an init of
\* the same buffer failed in the allocation.
C21_Witness ==
    /\ android.last.op = "init"
    /\ android.last.result = "Stop"
    /\ android.last.stage = "allocate"
    /\ android.acquires[android.last.buffer] = 1
    /\ android.releases[android.last.buffer] = 1

=============================================================================
